---------------------------- MODULE Spec2Model ----------------------------
(***************************************************************************)
(* The Login page's client-side login attempt guard (src/src/pages/        *)
(* Login.tsx), its two localStorage keys, the asynchronous onSubmit        *)
(* handler with its three awaited remote calls, and the server-side        *)
(* rate-limit counter the page consults through check_rate_limit /         *)
(* record_login_attempt.                                                   *)
(*                                                                         *)
(* Time is Date.now() in milliseconds.  The client and the server read the *)
(* same clock.  One email address is modelled.                             *)
(***************************************************************************)
EXTENDS Integers, Sequences, FiniteSets, Bags

VARIABLES
    now,            \* Date.now(), in ms
    mounted,        \* the Login component is on screen
    isLoading,      \* useState(false), Login.tsx:34
    loginAttempts,  \* useState(0), Login.tsx:35
    isLocked,       \* useState(false), Login.tsx:36
    lockoutEndTime, \* useState<number | null>(null), Login.tsx:37
    timer,          \* the setInterval of the countdown effect: NoTimer, or
                    \* the lockoutEndTime its callback closed over
    localStorage,   \* a function from the keys present to their strings
    flows,          \* bag of onSubmit invocations suspended at an await
    srvCount,       \* server: failed attempts of the email inside the window
    srvLast,        \* server: time of the last of them (0 when there is none)
    lastEvent,      \* the handler that ran last, with what it showed
    formState,      \* the last schema parse or form submission and its result
    session,        \* the signed-in user of the browser, or NoUser
    route,          \* the page the browser shows
    profiles,       \* rows of public.profiles
    authUsers,      \* the users of auth.users
    lastCall,       \* the last call to the backend (a statement on
                    \* public.profiles or an auth call), by whom, and the
                    \* rows it returned or wrote
    otherTab        \* the guard state of a Login page in a second tab of
                    \* the same browser, which shares localStorage

loginVars == <<now, mounted, isLoading, loginAttempts, isLocked, lockoutEndTime,
               timer, localStorage, flows, srvCount, srvLast, lastEvent>>

formVars == <<formState>>

backendVars == <<session, route, profiles, authUsers, lastCall>>

tabVars == <<otherTab>>

vars == <<loginVars, formVars, backendVars, tabVars>>

-----------------------------------------------------------------------------
(* Program constants *)

MAX_LOGIN_ATTEMPTS == 5
LOCKOUT_DURATION == 15 * 60 * 1000
WINDOW_MINUTES == 15
MS_PER_MINUTE == 60 * 1000

(* Bounds of the model *)

ClockStep == 450000    \* the clock advances in steps of this many ms
MaxNow == 1800000      \* the clock stops here
MaxFlows == 1          \* onSubmit invocations in flight at once
MaxSrvCount == 5       \* failed attempts the server counts at most

-----------------------------------------------------------------------------
(* JavaScript values *)

Null == -1     \* null: the empty lockoutEndTime
NaN == -2      \* the number NaN

Truthy(n) == n # Null /\ n # NaN /\ n # 0

\* a < b and a >= b on numbers: both are false when either side is NaN
Lt(a, b) == a # NaN /\ b # NaN /\ a < b
Ge(a, b) == a # NaN /\ b # NaN /\ a >= b

DigitChars == <<"0", "1", "2", "3", "4", "5", "6", "7", "8", "9">>

IsDigit(c) == \E i \in 1..10 : DigitChars[i] = c
DigitVal(c) == (CHOOSE i \in 1..10 : DigitChars[i] = c) - 1

NaNString == <<"N", "a", "N">>

RECURSIVE Digits(_)
Digits(n) == IF n < 10 THEN <<DigitChars[n + 1]>>
             ELSE Append(Digits(n \div 10), DigitChars[(n % 10) + 1])

\* Number.prototype.toString() of a non-negative integer or NaN
NumberToString(n) == IF n = NaN THEN NaNString ELSE Digits(n)

RECURSIVE ParseDigits(_, _, _)
ParseDigits(s, i, acc) ==
    IF i > Len(s) \/ ~IsDigit(s[i]) THEN acc
    ELSE ParseDigits(s, i + 1, acc * 10 + DigitVal(s[i]))

\* parseInt(s): the leading decimal digits, NaN when there are none
ParseInt(s) == IF Len(s) = 0 \/ ~IsDigit(s[1]) THEN NaN
               ELSE ParseDigits(s, 1, 0)

\* Math.ceil(a / d) for an integer a and d > 0
Ceil(a, d) == -((-a) \div d)

\* Math.ceil((lockoutEndTime - Date.now()) / 1000 / 60)
RemainingTime(endTime, t) ==
    IF endTime = NaN THEN NaN ELSE Ceil(endTime - t, MS_PER_MINUTE)

-----------------------------------------------------------------------------
(* localStorage *)

KeyLockoutEnd == "loginLockoutEnd"
KeyAttempts == "loginAttempts"

HasItem(ls, k) == k \in DOMAIN ls

SetItem(ls, k, v) == [x \in (DOMAIN ls) \cup {k} |-> IF x = k THEN v ELSE ls[x]]

RemoveItem(ls, k) == [x \in (DOMAIN ls) \ {k} |-> ls[x]]

EmptyStorage == [x \in {} |-> <<>>]

\* getItem(k) is a non-empty string
ItemTruthy(ls, k) == HasItem(ls, k) /\ Len(ls[k]) > 0

-----------------------------------------------------------------------------
(* The server's counter behind check_rate_limit and record_login_attempt *)

SrvInWindow(cnt, last, t, windowMinutes) ==
    cnt > 0 /\ t < last + windowMinutes * MS_PER_MINUTE

SrvEffectiveCount(cnt, last, t, windowMinutes) ==
    IF SrvInWindow(cnt, last, t, windowMinutes) THEN cnt ELSE 0

\* check_rate_limit(email, null, maxAttempts, windowMinutes) evaluated at t
CheckRateLimit(cnt, last, t, maxAttempts, windowMinutes) ==
    LET c == SrvEffectiveCount(cnt, last, t, windowMinutes) IN
    IF c >= maxAttempts
    THEN [allowed |-> FALSE, attempts_remaining |-> 0,
          lockout_until |-> last + windowMinutes * MS_PER_MINUTE]
    ELSE [allowed |-> TRUE, attempts_remaining |-> maxAttempts - c,
          lockout_until |-> Null]

Absent == -3      \* undefined: the answer has no such field
NotADate == -4    \* a string that is not a date

\* new Date(lockout_until).getTime(): a timestamp gives its ms, null gives
\* 0, undefined and a string that is not a date give NaN
GetTime(lu) ==
    IF lu = Null THEN 0
    ELSE IF lu \in {Absent, NotADate} THEN NaN
    ELSE lu

-----------------------------------------------------------------------------
(* Events *)

\* live: the handler ran for the component instance now on screen
Ev(name, arg, live) == [ev |-> name, arg |-> arg, live |-> live]

\* an onSubmit invocation suspended at an await
Flow(pc, stale, hasData, remaining, err) ==
    [pc |-> pc, stale |-> stale, hasData |-> hasData,
     remaining |-> remaining, err |-> err]

NoTimer == Null

TimerNeverStarted(m, locked, endTime) == NoTimer

\* the countdown effect (deps [isLocked, lockoutEndTime]): an interval
\* exists while the component is mounted, locked, with a truthy end time
TimerFor(m, locked, endTime) ==
    IF m /\ locked /\ Truthy(endTime) THEN endTime ELSE NoTimer

\* the invocations in flight belong to a component instance that is gone:
\* their later setState calls change nothing
MarkStale(fl) ==
    LET S == BagToSet(fl)
        T == {[f EXCEPT !.stale = TRUE] : f \in S}
    IN [g \in T |-> CopiesIn(g, fl) + CopiesIn([g EXCEPT !.stale = FALSE], fl)]

-----------------------------------------------------------------------------
(* The "existing lockout" effect, run once on mount *)

LockoutActiveOrEqual(t, endTime) == Lt(t, endTime) \/ t = endTime

\* if (Date.now() < endTime)
LockoutActive(t, endTime) == Lt(t, endTime)

MountEffect(ls, t) ==
    LET hasEnd == ItemTruthy(ls, KeyLockoutEnd)
        endTime == IF hasEnd THEN ParseInt(ls[KeyLockoutEnd]) ELSE NaN
        active == hasEnd /\ LockoutActive(t, endTime)
        ls1 == IF hasEnd /\ ~active
               THEN RemoveItem(RemoveItem(ls, KeyLockoutEnd), KeyAttempts)
               ELSE ls
    IN [isLocked |-> active,
        lockoutEndTime |-> IF active THEN endTime ELSE Null,
        loginAttempts |-> IF ItemTruthy(ls1, KeyAttempts)
                          THEN ParseInt(ls1[KeyAttempts]) ELSE 0,
        localStorage |-> ls1]

\* the route shows /login: useState initial values, then the mount effects
Mount ==
    /\ ~mounted
    /\ LET r == MountEffect(localStorage, now) IN
        /\ mounted' = TRUE
        /\ isLoading' = FALSE
        /\ isLocked' = r.isLocked
        /\ lockoutEndTime' = r.lockoutEndTime
        /\ loginAttempts' = r.loginAttempts
        /\ localStorage' = r.localStorage
        /\ timer' = TimerFor(TRUE, r.isLocked, r.lockoutEndTime)
    /\ flows' = flows
    /\ lastEvent' = Ev("mount", IF ItemTruthy(localStorage, KeyLockoutEnd)
                                THEN ParseInt(localStorage[KeyLockoutEnd])
                                ELSE Null, TRUE)
    /\ UNCHANGED <<now, srvCount, srvLast>>
    /\ UNCHANGED <<formVars, backendVars, tabVars>>

\* the user leaves /login: the component state is dropped, the effect's
\* cleanup clears the interval, pending invocations run on
Unmount ==
    /\ mounted
    /\ mounted' = FALSE
    /\ isLoading' = FALSE
    /\ loginAttempts' = 0
    /\ isLocked' = FALSE
    /\ lockoutEndTime' = Null
    /\ timer' = NoTimer
    /\ flows' = MarkStale(flows)
    /\ lastEvent' = Ev("unmount", 0, TRUE)
    /\ UNCHANGED <<now, localStorage, srvCount, srvLast>>
    /\ UNCHANGED <<formVars, backendVars, tabVars>>

\* time passes; failed attempts older than the window leave the server's count
Advance ==
    /\ now + ClockStep <= MaxNow
    /\ now' = now + ClockStep
    /\ srvCount' = SrvEffectiveCount(srvCount, srvLast, now', WINDOW_MINUTES)
    /\ srvLast' = IF srvCount' = 0 THEN 0 ELSE srvLast
    /\ lastEvent' = Ev("advance", 0, TRUE)
    /\ UNCHANGED <<mounted, isLoading, loginAttempts, isLocked, lockoutEndTime,
                   timer, localStorage, flows>>
    /\ UNCHANGED <<formVars, backendVars, tabVars>>

TickExpiredStrict(endTime, t) == Lt(endTime, t)

\* the interval callback of the countdown effect:
\* if (Date.now() >= lockoutEndTime)
TickExpired(endTime, t) == Ge(t, endTime)

Tick ==
    /\ timer # NoTimer
    /\ IF TickExpired(timer, now)
       THEN /\ isLocked' = FALSE
            /\ lockoutEndTime' = Null
            /\ loginAttempts' = 0
            /\ localStorage' =
                 RemoveItem(RemoveItem(localStorage, KeyLockoutEnd), KeyAttempts)
            /\ timer' = NoTimer
       ELSE UNCHANGED <<isLocked, lockoutEndTime, loginAttempts, localStorage,
                        timer>>
    /\ lastEvent' = Ev("tick", IF TickExpired(timer, now) THEN 1 ELSE 0, TRUE)
    /\ UNCHANGED <<now, mounted, isLoading, flows, srvCount, srvLast>>
    /\ UNCHANGED <<formVars, backendVars, tabVars>>

\* the user clears the site's local storage
ClearStorage ==
    /\ DOMAIN localStorage # {}
    /\ localStorage' = EmptyStorage
    /\ lastEvent' = Ev("clear", 0, TRUE)
    /\ UNCHANGED <<now, mounted, isLoading, loginAttempts, isLocked,
                   lockoutEndTime, timer, flows, srvCount, srvLast>>
    /\ UNCHANGED <<formVars, backendVars, tabVars>>


Undefined == <<"undefined">>

\* A value typed into a form or handed to a schema, not yet validated
Entered(form, input) ==
    [op |-> "entered", form |-> form, input |-> input, issues |-> <<>>,
     output |-> <<>>, calls |-> <<>>]

FormIdle == Entered("none", <<>>)

NoUser == "anon"

NoEvent == "none"

NoCall ==
    [op |-> "none", by |-> NoUser, target |-> NoUser, rows |-> {},
     error |-> FALSE, event |-> NoEvent]

\* useState initial values of a Login page that is not on screen
TabClosed ==
    [mounted |-> FALSE, isLocked |-> FALSE, lockoutEndTime |-> Null,
     loginAttempts |-> 0]

InitLogin ==
    /\ now = 0
    /\ mounted = FALSE
    /\ isLoading = FALSE
    /\ loginAttempts = 0
    /\ isLocked = FALSE
    /\ lockoutEndTime = Null
    /\ timer = NoTimer
    /\ localStorage = EmptyStorage
    /\ flows = EmptyBag
    /\ srvCount = 0
    /\ srvLast = 0
    /\ lastEvent = Ev("init", 0, TRUE)

InitBackend ==
    /\ session = NoUser
    /\ route = "/"
    /\ profiles = {}
    /\ authUsers = {}
    /\ lastCall = NoCall

Init ==
    InitLogin /\ formState = FormIdle /\ InitBackend /\ otherTab = TabClosed

-----------------------------------------------------------------------------
(* onSubmit *)

SubmitNeverBlocked(locked) == FALSE

\* if (isLocked) { toast; return }
SubmitBlocked(locked) == locked

\* finally { setIsLoading(false) }: isLoading afterwards; the setState of an
\* invocation whose component instance is gone changes nothing
AfterFinally(stale, loading) == IF stale THEN loading ELSE FALSE

OnSubmitLocked ==
    /\ mounted
    /\ SubmitBlocked(isLocked)
    /\ lastEvent' = Ev("submit_locked", RemainingTime(lockoutEndTime, now), TRUE)
    /\ UNCHANGED <<now, mounted, isLoading, loginAttempts, isLocked,
                   lockoutEndTime, timer, localStorage, flows, srvCount,
                   srvLast>>
    /\ UNCHANGED <<formVars, backendVars, tabVars>>

\* setIsLoading(true), then await rpc('check_rate_limit'); at most limit
\* invocations are followed at a time
StartSubmit(limit) ==
    /\ mounted
    /\ ~SubmitBlocked(isLocked)
    /\ BagCardinality(flows) < limit
    /\ isLoading' = TRUE
    /\ flows' = flows (+) SetToBag({Flow("check", FALSE, FALSE, 0, FALSE)})
    /\ lastEvent' = Ev("submit", 0, TRUE)
    /\ UNCHANGED <<now, mounted, loginAttempts, isLocked, lockoutEndTime,
                   timer, localStorage, srvCount, srvLast>>
    /\ UNCHANGED <<formVars, backendVars, tabVars>>

OnSubmitStart == StartSubmit(MaxFlows)

\* <Button type="submit" disabled={isLoading || isLocked}>
SubmitEnabled == ~(isLoading \/ isLocked)

\* The form is submitted through its enabled submit button
ClickSubmit == SubmitEnabled /\ StartSubmit(MaxFlows + 1)

\* if (rateLimitCheck && !rateLimitCheck.allowed)
ServerBlocks(hasData, rl) == hasData /\ ~rl.allowed

LockoutUntilInSeconds(rl) == GetTime(rl.lockout_until) \div 1000

\* const lockoutUntil = new Date(rateLimitCheck.lockout_until).getTime()
LockoutUntil(rl) == GetTime(rl.lockout_until)

\* the two setItem calls of the server-lockout branch
PersistServerLockout(ls, lockoutUntil) ==
    SetItem(SetItem(ls, KeyLockoutEnd, NumberToString(lockoutUntil)),
            KeyAttempts, NumberToString(MAX_LOGIN_ATTEMPTS))

\* check_rate_limit answered rl, which is "not allowed": lock, persist,
\* toast, return
ServerLockout(f, rl) ==
    LET lockoutUntil == LockoutUntil(rl) IN
    /\ f.pc = "check"
    /\ ServerBlocks(TRUE, rl)
    /\ IF f.stale
       THEN UNCHANGED <<isLocked, lockoutEndTime, isLoading, timer>>
       ELSE /\ isLocked' = TRUE
            /\ lockoutEndTime' = lockoutUntil
            /\ isLoading' = FALSE
            /\ timer' = TimerFor(mounted, TRUE, lockoutUntil)
    /\ localStorage' = PersistServerLockout(localStorage, lockoutUntil)
    /\ flows' = flows (-) SetToBag({f})
    /\ lastEvent' = Ev("check_blocked", rl.lockout_until, ~f.stale)
    /\ UNCHANGED <<now, mounted, loginAttempts, srvCount, srvLast>>
    /\ UNCHANGED <<formVars, backendVars, tabVars>>

\* the answer of the server as modelled: lockout_until is a timestamp
CheckBlocked(f) ==
    ServerLockout(f, CheckRateLimit(srvCount, srvLast, now, MAX_LOGIN_ATTEMPTS,
                                    WINDOW_MINUTES))

\* what a "not allowed" answer may carry as lockout_until besides the
\* server's timestamp: nothing, null, 0, or a string that is not a date
LockoutUntilValues == {Absent, Null, 0, NotADate}

\* a "not allowed" answer whose lockout_until is lu
CheckBlockedWith(f, lu) ==
    ServerLockout(f, [CheckRateLimit(srvCount, srvLast, now,
                                     MAX_LOGIN_ATTEMPTS, WINDOW_MINUTES)
                         EXCEPT !.lockout_until = lu])

\* check_rate_limit answered "allowed", or failed (error logged, data null):
\* onSubmit goes on to await signIn(email, password)
CheckPassed(f, hasData) ==
    LET rl == CheckRateLimit(srvCount, srvLast, now, MAX_LOGIN_ATTEMPTS,
                             WINDOW_MINUTES)
    IN
    /\ f.pc = "check"
    /\ ~ServerBlocks(hasData, rl)
    /\ flows' = (flows (-) SetToBag({f})) (+)
                SetToBag({Flow("signin", f.stale, hasData,
                               IF hasData THEN rl.attempts_remaining ELSE 0,
                               FALSE)})
    /\ lastEvent' = Ev("auth_call", IF hasData THEN 1 ELSE 0, ~f.stale)
    /\ UNCHANGED <<now, mounted, isLoading, loginAttempts, isLocked,
                   lockoutEndTime, timer, localStorage, srvCount, srvLast>>
    /\ UNCHANGED <<formVars, backendVars, tabVars>>

\* an awaited log_security_event call: it answers, answers with an error
\* (the answer is not looked at), or rejects
AuditOutcomes == {"ok", "error", "throws"}

\* useAuth.signIn: "ok" is { error: null }, "error" is { error }, "throws"
\* is a rejection.  After a successful signInWithPassword the login_success
\* event is awaited inside the try block, so its rejection lands in the
\* catch block; the login_failed event is awaited inside the catch block.
SignIn(authOk, auditSuccess, auditFailed) ==
    IF authOk /\ auditSuccess # "throws" THEN "ok"
    ELSE IF auditFailed = "throws" THEN "throws"
    ELSE "error"

\* signIn settled.  { error } sends onSubmit on to await
\* rpc('record_login_attempt', { p_success: !error }); a rejection goes to
\* onSubmit's catch and finally
SignInReturns(f, authOk, auditSuccess, auditFailed) ==
    LET result == SignIn(authOk, auditSuccess, auditFailed) IN
    /\ f.pc = "signin"
    /\ IF result = "throws"
       THEN /\ flows' = flows (-) SetToBag({f})
            /\ isLoading' = AfterFinally(f.stale, isLoading)
            /\ lastEvent' = Ev("signin_throws", IF authOk THEN 1 ELSE 0, ~f.stale)
       ELSE /\ flows' = (flows (-) SetToBag({f})) (+)
                        SetToBag({[f EXCEPT !.pc = "record",
                                            !.err = (result = "error")]})
            /\ isLoading' = isLoading
            /\ lastEvent' = Ev(IF result = "ok" THEN "signin_ok" ELSE "signin_error",
                               IF authOk THEN 1 ELSE 0, ~f.stale)
    /\ UNCHANGED <<now, mounted, loginAttempts, isLocked,
                   lockoutEndTime, timer, localStorage, srvCount, srvLast>>
    /\ UNCHANGED <<formVars, backendVars, tabVars>>

\* rateLimitCheck?.attempts_remaining ?? MAX_LOGIN_ATTEMPTS
AttemptsRemaining(hasData, remaining) ==
    IF hasData THEN remaining ELSE MAX_LOGIN_ATTEMPTS

NewAttemptsOffByOne(attemptsRemaining) ==
    MAX_LOGIN_ATTEMPTS - attemptsRemaining + 2

\* MAX_LOGIN_ATTEMPTS - attemptsRemaining + 1
NewAttempts(attemptsRemaining) == MAX_LOGIN_ATTEMPTS - attemptsRemaining + 1

\* the error branch: setLoginAttempts, setItem("loginAttempts"), toast
FailedLoginStorage(ls, newAttempts) ==
    SetItem(ls, KeyAttempts, NumberToString(newAttempts))

SuccessStorageKeepsAttempts(ls) == RemoveItem(ls, KeyLockoutEnd)

\* the success branch: both keys are removed
SuccessStorage(ls) ==
    RemoveItem(RemoveItem(ls, KeyAttempts), KeyLockoutEnd)

\* record_login_attempt(email, null, FALSE) on the server
RecordFailure(cnt, last, t) ==
    [count |-> SrvEffectiveCount(cnt, last, t, WINDOW_MINUTES) + 1, last |-> t]

\* record_login_attempt returned after a failed signIn
RecordFailed(f) ==
    LET attemptsRemaining == AttemptsRemaining(f.hasData, f.remaining)
        newAttempts == NewAttempts(attemptsRemaining)
        srv == RecordFailure(srvCount, srvLast, now)
    IN
    /\ f.pc = "record"
    /\ f.err
    /\ srv.count <= MaxSrvCount
    /\ srvCount' = srv.count
    /\ srvLast' = srv.last
    /\ IF f.stale
       THEN UNCHANGED <<loginAttempts, isLoading>>
       ELSE /\ loginAttempts' = newAttempts
            /\ isLoading' = FALSE
    /\ localStorage' = FailedLoginStorage(localStorage, newAttempts)
    /\ flows' = flows (-) SetToBag({f})
    /\ lastEvent' = Ev("login_failed", newAttempts, ~f.stale)
    /\ UNCHANGED <<now, mounted, isLocked, lockoutEndTime, timer>>
    /\ UNCHANGED <<formVars, backendVars, tabVars>>

\* record_login_attempt returned after a successful signIn: the keys are
\* removed and navigate("/dashboard") takes the Login page off screen
RecordSucceeded(f, reset) ==
    /\ f.pc = "record"
    /\ ~f.err
    /\ srvCount' = IF reset THEN 0 ELSE srvCount
    /\ srvLast' = IF reset THEN 0 ELSE srvLast
    /\ localStorage' = SuccessStorage(localStorage)
    /\ mounted' = FALSE
    /\ isLoading' = FALSE
    /\ loginAttempts' = 0
    /\ isLocked' = FALSE
    /\ lockoutEndTime' = Null
    /\ timer' = NoTimer
    /\ flows' = MarkStale(flows (-) SetToBag({f}))
    /\ lastEvent' = Ev("login_success",
                       IF ItemTruthy(localStorage, KeyAttempts)
                       THEN ParseInt(localStorage[KeyAttempts]) ELSE 0,
                       ~f.stale)
    /\ now' = now
    /\ UNCHANGED <<formVars, backendVars, tabVars>>

\* an awaited rpc of onSubmit threw: catch shows the generic toast, finally
\* runs setIsLoading(false)
Throws(f) ==
    /\ f.pc \in {"check", "record"}
    /\ flows' = flows (-) SetToBag({f})
    /\ isLoading' = AfterFinally(f.stale, isLoading)
    /\ lastEvent' = Ev("caught", 0, ~f.stale)
    /\ UNCHANGED <<now, mounted, loginAttempts, isLocked, lockoutEndTime,
                   timer, localStorage, srvCount, srvLast>>
    /\ UNCHANGED <<formVars, backendVars, tabVars>>

Next ==
    \/ Mount
    \/ Unmount
    \/ Advance
    \/ Tick
    \/ ClearStorage
    \/ OnSubmitLocked
    \/ OnSubmitStart
    \/ \E f \in BagToSet(flows) : CheckBlocked(f)
    \/ \E f \in BagToSet(flows), hasData \in BOOLEAN : CheckPassed(f, hasData)
    \/ \E f \in BagToSet(flows), authOk \in BOOLEAN,
          auditSuccess \in AuditOutcomes, auditFailed \in AuditOutcomes :
            SignInReturns(f, authOk, auditSuccess, auditFailed)
    \/ \E f \in BagToSet(flows) : RecordFailed(f)
    \/ \E f \in BagToSet(flows), reset \in BOOLEAN : RecordSucceeded(f, reset)
    \/ \E f \in BagToSet(flows) : Throws(f)

Spec == Init /\ [][Next]_vars

\* The Login page with a server whose "not allowed" answers carry any
\* lockout_until, and an interval that keeps firing while it exists
NextLive ==
    \/ Mount
    \/ Unmount
    \/ Advance
    \/ Tick
    \/ ClearStorage
    \/ OnSubmitLocked
    \/ OnSubmitStart
    \/ \E f \in BagToSet(flows) : CheckBlocked(f)
    \/ \E f \in BagToSet(flows), lu \in LockoutUntilValues :
          CheckBlockedWith(f, lu)
    \/ \E f \in BagToSet(flows), hasData \in BOOLEAN : CheckPassed(f, hasData)
    \/ \E f \in BagToSet(flows), authOk \in BOOLEAN,
          auditSuccess \in AuditOutcomes, auditFailed \in AuditOutcomes :
            SignInReturns(f, authOk, auditSuccess, auditFailed)
    \/ \E f \in BagToSet(flows) : RecordFailed(f)
    \/ \E f \in BagToSet(flows), reset \in BOOLEAN : RecordSucceeded(f, reset)
    \/ \E f \in BagToSet(flows) : Throws(f)

SpecLive == Init /\ [][NextLive]_vars /\ WF_vars(Tick)

\* The Login page driven through its submit button alone, with the page
\* left and entered again while a submission is in flight
NextRemount ==
    \/ Mount
    \/ Unmount
    \/ ClickSubmit
    \/ \E f \in BagToSet(flows) : CheckBlocked(f)
    \/ \E f \in BagToSet(flows), hasData \in BOOLEAN : CheckPassed(f, hasData)
    \/ \E f \in BagToSet(flows), authOk \in BOOLEAN,
          auditSuccess \in AuditOutcomes, auditFailed \in AuditOutcomes :
            SignInReturns(f, authOk, auditSuccess, auditFailed)
    \/ \E f \in BagToSet(flows) : RecordFailed(f)
    \/ \E f \in BagToSet(flows), reset \in BOOLEAN : RecordSucceeded(f, reset)
    \/ \E f \in BagToSet(flows) : Throws(f)

SpecRemount == Init /\ [][NextRemount]_vars

-----------------------------------------------------------------------------
(* A second tab showing the Login page.  Its handlers are those of the     *)
(* first tab, run on its own component state and the shared localStorage;  *)
(* a submission of the second tab is followed from its start to its end    *)
(* without another handler running in between.                             *)

OtherFrame ==
    /\ UNCHANGED <<mounted, isLoading, loginAttempts, isLocked, lockoutEndTime,
                   timer, flows, lastEvent>>
    /\ UNCHANGED <<formVars, backendVars>>

OtherMount ==
    LET r == MountEffect(localStorage, now) IN
    /\ ~otherTab.mounted
    /\ otherTab' = [mounted |-> TRUE, isLocked |-> r.isLocked,
                    lockoutEndTime |-> r.lockoutEndTime,
                    loginAttempts |-> r.loginAttempts]
    /\ localStorage' = r.localStorage
    /\ UNCHANGED <<now, srvCount, srvLast>>
    /\ OtherFrame

OtherUnmount ==
    /\ otherTab.mounted
    /\ otherTab' = TabClosed
    /\ UNCHANGED <<now, localStorage, srvCount, srvLast>>
    /\ OtherFrame

OtherTimer ==
    TimerFor(otherTab.mounted, otherTab.isLocked, otherTab.lockoutEndTime)

OtherTick ==
    /\ OtherTimer # NoTimer
    /\ IF TickExpired(OtherTimer, now)
       THEN /\ otherTab' = [TabClosed EXCEPT !.mounted = TRUE]
            /\ localStorage' =
                 RemoveItem(RemoveItem(localStorage, KeyLockoutEnd), KeyAttempts)
       ELSE UNCHANGED <<otherTab, localStorage>>
    /\ UNCHANGED <<now, srvCount, srvLast>>
    /\ OtherFrame

\* onSubmit of the second tab, answered "not allowed"
OtherSubmitBlocked ==
    LET rl == CheckRateLimit(srvCount, srvLast, now, MAX_LOGIN_ATTEMPTS,
                             WINDOW_MINUTES)
    IN
    /\ otherTab.mounted
    /\ ~SubmitBlocked(otherTab.isLocked)
    /\ ServerBlocks(TRUE, rl)
    /\ otherTab' = [otherTab EXCEPT !.isLocked = TRUE,
                                    !.lockoutEndTime = LockoutUntil(rl)]
    /\ localStorage' = PersistServerLockout(localStorage, LockoutUntil(rl))
    /\ UNCHANGED <<now, srvCount, srvLast>>
    /\ OtherFrame

\* onSubmit of the second tab with a wrong password
OtherSubmitFailed(hasData) ==
    LET rl == CheckRateLimit(srvCount, srvLast, now, MAX_LOGIN_ATTEMPTS,
                             WINDOW_MINUTES)
        newAttempts ==
            NewAttempts(AttemptsRemaining(hasData, rl.attempts_remaining))
        srv == RecordFailure(srvCount, srvLast, now)
    IN
    /\ otherTab.mounted
    /\ ~SubmitBlocked(otherTab.isLocked)
    /\ ~ServerBlocks(hasData, rl)
    /\ srv.count <= MaxSrvCount
    /\ srvCount' = srv.count
    /\ srvLast' = srv.last
    /\ otherTab' = [otherTab EXCEPT !.loginAttempts = newAttempts]
    /\ localStorage' = FailedLoginStorage(localStorage, newAttempts)
    /\ UNCHANGED now
    /\ OtherFrame

\* onSubmit of the second tab with the right password: the keys are removed
\* and the tab leaves the Login page
OtherSubmitSucceeded(hasData) ==
    LET rl == CheckRateLimit(srvCount, srvLast, now, MAX_LOGIN_ATTEMPTS,
                             WINDOW_MINUTES)
    IN
    /\ otherTab.mounted
    /\ ~SubmitBlocked(otherTab.isLocked)
    /\ ~ServerBlocks(hasData, rl)
    /\ otherTab' = TabClosed
    /\ localStorage' = SuccessStorage(localStorage)
    /\ UNCHANGED <<now, srvCount, srvLast>>
    /\ OtherFrame

\* Two tabs: their mounts, submissions and timer ticks in any order
NextTabs ==
    \/ Mount
    \/ Unmount
    \/ Advance
    \/ Tick
    \/ OnSubmitStart
    \/ \E f \in BagToSet(flows) : CheckBlocked(f)
    \/ \E f \in BagToSet(flows), hasData \in BOOLEAN : CheckPassed(f, hasData)
    \/ \E f \in BagToSet(flows), authOk \in BOOLEAN,
          auditSuccess \in AuditOutcomes, auditFailed \in AuditOutcomes :
            SignInReturns(f, authOk, auditSuccess, auditFailed)
    \/ \E f \in BagToSet(flows) : RecordFailed(f)
    \/ \E f \in BagToSet(flows), reset \in BOOLEAN : RecordSucceeded(f, reset)
    \/ \E f \in BagToSet(flows) : Throws(f)
    \/ OtherMount
    \/ OtherUnmount
    \/ OtherTick
    \/ OtherSubmitBlocked
    \/ \E hasData \in BOOLEAN : OtherSubmitFailed(hasData)
    \/ \E hasData \in BOOLEAN : OtherSubmitSucceeded(hasData)

SpecTabs == Init /\ [][NextTabs]_vars

-----------------------------------------------------------------------------
(* Strings: a string is the sequence of its characters *)

UpperCaseLetters ==
    <<"A","B","C","D","E","F","G","H","I","J","K","L","M",
      "N","O","P","Q","R","S","T","U","V","W","X","Y","Z">>

LowerCaseLetters ==
    <<"a","b","c","d","e","f","g","h","i","j","k","l","m",
      "n","o","p","q","r","s","t","u","v","w","x","y","z">>

Range(seq) == {seq[i] : i \in 1..Len(seq)}

IsUpper(c) == c \in Range(UpperCaseLetters)

IsLower(c) == c \in Range(LowerCaseLetters)

IsAlnum(c) == IsUpper(c) \/ IsLower(c) \/ IsDigit(c)

Whitespace == {" ", "\t", "\n", "\r"}

MinOf(S) == CHOOSE x \in S : \A y \in S : x <= y

MaxOf(S) == CHOOSE x \in S : \A y \in S : x >= y

(* String.prototype.trim *)
Trim(s) ==
    LET kept == {i \in 1..Len(s) : s[i] \notin Whitespace} IN
    IF kept = {} THEN <<>> ELSE SubSeq(s, MinOf(kept), MaxOf(kept))

LowerOf(c) ==
    IF IsUpper(c)
    THEN LowerCaseLetters[CHOOSE k \in 1..Len(UpperCaseLetters) :
                              UpperCaseLetters[k] = c]
    ELSE c

(* String.prototype.toLowerCase *)
ToLowerCase(s) == [i \in 1..Len(s) |-> LowerOf(s[i])]

Repeat(c, n) == [i \in 1..n |-> c]

Strings(chars, n) == UNION {[1..k -> chars] : k \in 0..n}

IsString(v) == v # Undefined

-----------------------------------------------------------------------------
(* Validation schemas (src/src/hooks/useAuth.tsx).  A zod string schema    *)
(* runs its checks in the order they are declared, on the value as the     *)
(* checks before it left it; a failed check adds an issue and the next     *)
(* check still runs.                                                       *)

IssueIf(failed, message) == IF failed THEN <<message>> ELSE <<>>

HasUpper(s) == \E i \in 1..Len(s) : IsUpper(s[i])

HasLower(s) == \E i \in 1..Len(s) : IsLower(s[i])

HasDigit(s) == \E i \in 1..Len(s) : IsDigit(s[i])

HasSpecialOrDigit(s) == \E i \in 1..Len(s) : ~(IsUpper(s[i]) \/ IsLower(s[i]))

HasSpecial(s) == \E i \in 1..Len(s) : ~IsAlnum(s[i])

PasswordSchema(s) ==
    [issues |->
        IssueIf(Len(s) < 8, "Password must be at least 8 characters")
        \o IssueIf(~HasUpper(s),
                   "Password must contain at least one uppercase letter")
        \o IssueIf(~HasLower(s),
                   "Password must contain at least one lowercase letter")
        \o IssueIf(~HasDigit(s),
                   "Password must contain at least one number")
        \o IssueIf(~HasSpecial(s),
                   "Password must contain at least one special character"),
     output |-> s]

(* /^[a-zA-Z0-9_]+$/ *)
IsWord(s) == Len(s) >= 1 /\ \A i \in 1..Len(s) : IsAlnum(s[i]) \/ s[i] = "_"

UsernameIssues(s) ==
    IssueIf(Len(s) < 3, "Username must be at least 3 characters")
    \o IssueIf(Len(s) > 30, "Username must not exceed 30 characters")
    \o IssueIf(~IsWord(s),
               "Username can only contain letters, numbers, and underscores")

UsernameSchemaTrimFirst(s) ==
    [issues |-> UsernameIssues(Trim(s)), output |-> Trim(s)]

UsernameSchema(s) == [issues |-> UsernameIssues(s), output |-> Trim(s)]

\* The pattern of z.string().email(), matched without regard to case: the
\* string does not start with a dot and holds no two dots in a row; the
\* local part is any number of [A-Z0-9_'+-.] and then one of [A-Z0-9_+-];
\* after the @ come one or more labels, each an alphanumeric followed by
\* alphanumerics or hyphens and closed by a dot, and then two or more
\* letters.
IsEmailLocal(l) ==
    /\ Len(l) >= 1
    /\ \A i \in 1..(Len(l) - 1) : IsAlnum(l[i]) \/ l[i] \in {"_", "'", "+", "-", "."}
    /\ IsAlnum(l[Len(l)]) \/ l[Len(l)] \in {"_", "+", "-"}

IsEmailLabel(b) ==
    /\ Len(b) >= 1
    /\ IsAlnum(b[1])
    /\ \A i \in 2..Len(b) : IsAlnum(b[i]) \/ b[i] = "-"

IsEmailTld(t) ==
    /\ Len(t) >= 2
    /\ \A i \in 1..Len(t) : IsUpper(t[i]) \/ IsLower(t[i])

IsEmailDomain(d) ==
    LET dots == {i \in 1..Len(d) : d[i] = "."} IN
    /\ dots # {}
    /\ IsEmailTld(SubSeq(d, MaxOf(dots) + 1, Len(d)))
    /\ \A i \in dots :
         LET before == {j \in dots : j < i}
             start == IF before = {} THEN 1 ELSE MaxOf(before) + 1
         IN  IsEmailLabel(SubSeq(d, start, i - 1))

IsEmail(s) ==
    /\ Len(s) >= 1
    /\ s[1] # "."
    /\ ~\E i \in 1..(Len(s) - 1) : s[i] = "." /\ s[i + 1] = "."
    /\ \E k \in 1..Len(s) :
         /\ s[k] = "@"
         /\ IsEmailLocal(SubSeq(s, 1, k - 1))
         /\ IsEmailDomain(SubSeq(s, k + 1, Len(s)))

EmailSchema(s) ==
    [issues |->
        IssueIf(~IsEmail(s), "Invalid email address")
        \o IssueIf(Len(s) > 255, "Email must not exceed 255 characters"),
     output |-> ToLowerCase(Trim(s))]

(* z.string() *)
StringSchema(v) == [issues |-> <<>>, output |-> v]

(* z.string().min(1, ...) *)
LoginPasswordSchema(s) ==
    [issues |-> IssueIf(Len(s) < 1, "Password is required"), output |-> s]

(* A field that is not a string fails its type check: the issue is         *)
(* "Required" and none of the field's checks runs.                         *)
Required == [issues |-> <<"Required">>, output |-> Undefined]

At(path, messages) ==
    [i \in 1..Len(messages) |-> [path |-> path, message |-> messages[i]]]

RefinementRunsOnlyWhenValid(d) ==
    /\ IsString(d.username) /\ IsString(d.email)
    /\ IsString(d.password) /\ IsString(d.confirmPassword)
    /\ UsernameSchema(d.username).issues = <<>>
    /\ EmailSchema(d.email).issues = <<>>
    /\ PasswordSchema(d.password).issues = <<>>

(* The refinement of an object schema runs unless the object's parse was   *)
(* aborted, which is when a field failed its type check.                   *)
RefinementRuns(d) ==
    /\ IsString(d.username)
    /\ IsString(d.email)
    /\ IsString(d.password)
    /\ IsString(d.confirmPassword)

SignupSchema(d) ==
    LET u == IF IsString(d.username) THEN UsernameSchema(d.username)
             ELSE Required
        e == IF IsString(d.email) THEN EmailSchema(d.email)
             ELSE Required
        p == IF IsString(d.password) THEN PasswordSchema(d.password)
             ELSE Required
        c == IF IsString(d.confirmPassword) THEN StringSchema(d.confirmPassword)
             ELSE Required
        out == [username |-> u.output, email |-> e.output,
                password |-> p.output, confirmPassword |-> c.output]
        fieldIssues == At("username", u.issues) \o At("email", e.issues)
                       \o At("password", p.issues)
                       \o At("confirmPassword", c.issues)
        refined == IF RefinementRuns(d) /\ out.password # out.confirmPassword
                   THEN <<[path |-> "confirmPassword",
                           message |-> "Passwords do not match"]>>
                   ELSE <<>>
    IN  [issues |-> fieldIssues \o refined, output |-> out]

LoginSchema(d) ==
    LET e == IF IsString(d.email) THEN EmailSchema(d.email)
             ELSE Required
        p == IF IsString(d.password) THEN LoginPasswordSchema(d.password)
             ELSE Required
    IN  [issues |-> At("email", e.issues) \o At("password", p.issues),
         output |-> [email |-> e.output, password |-> p.output]]

-----------------------------------------------------------------------------
(* Form submission: handleSubmit(onSubmit) with zodResolver(schema) *)

NoError == ""

(* formState.errors[path]: the message of the first issue of the path *)
FieldError(issues, path) ==
    LET at == {i \in 1..Len(issues) : issues[i].path = path} IN
    IF at = {} THEN NoError ELSE issues[MinOf(at)].message

SubmitHandlerAlwaysRuns(issues) == TRUE

(* handleSubmit calls onSubmit when the resolver reported no error *)
SubmitHandlerRuns(issues) == issues = <<>>

SignUpOutcomes == {"ok", "auth_error", "profile_error"}

(* The remote calls of signUp, in order *)
SignUpCalls(outcome) ==
    IF outcome = "auth_error"
    THEN <<"auth.signUp", "log_security_event">>
    ELSE <<"auth.signUp", "profiles.insert", "log_security_event">>

(* Bounds of the inputs *)
MaxFill == 6

MaxTail == 3

MaxNameFill == 30

MaxNameTail == 2

MaxPad == 2

MaxEmailFill == 251

PasswordChars == {"A", "a", "1", "!"}

PasswordInputs ==
    {Repeat(c, n) \o t : c \in PasswordChars, n \in 0..MaxFill,
                         t \in Strings(PasswordChars, MaxTail)}

NameChars == {"a", "Z", "_", "!", " "}

UsernameInputs ==
    {pre \o Repeat(c, n) \o t :
        pre \in {<<>>, <<" ">>}, c \in NameChars, n \in 0..MaxNameFill,
        t \in Strings(NameChars, MaxNameTail)}

EmailLocals ==
    {<<"T","e","s","t">>, <<"a">>, <<".","a">>, <<"a",".",".","b">>, <<>>,
     <<"a"," ","b">>, <<"a",".">>,
     Repeat("a", MaxEmailFill - 1), Repeat("a", MaxEmailFill)}

EmailDomains ==
    {<<"E","x","a","m","p","l","e",".","c","o","m">>, <<"b",".","c","o">>,
     <<"b">>, <<"b",".","c">>, <<"-","b",".","c","o">>,
     <<"b",".","c","o","@","d",".","c","o">>, <<"m",".","b","-","1",".","c","o">>}

EmailInputs ==
    {Repeat(" ", pre) \o l \o <<"@">> \o d \o Repeat(" ", post) :
        pre \in 0..MaxPad, post \in 0..MaxPad,
        l \in EmailLocals, d \in EmailDomains}
    \cup {<<>>, <<"b","a","d">>}

SignupInputs ==
    [username : {<<"a","b">>, <<"a","b","c">>, <<"a","!","c">>,
                 <<" ","a","b","c">>, <<>>},
     email : {<<"a","@","b",".","c","o">>, <<" ","A","@","b",".","c","o">>,
              <<"b","a","d">>},
     password : {<<"A","a","1","!","a","a","a","a">>, <<"a","a","a">>, <<>>},
     confirmPassword : {<<"A","a","1","!","a","a","a","a">>, <<"a","a","a">>,
                        <<>>}]

ParseInputs ==
    SignupInputs
    \cup [username : {<<"a","b","c">>, Undefined},
          email : {<<"a","@","b",".","c","o">>, Undefined},
          password : {<<"A","a","1","!","a","a","a","a">>, Undefined},
          confirmPassword : {<<"a","a","a">>, Undefined}]

LoginInputs ==
    [email : {<<"a","@","b",".","c","o">>, <<" ","A","@","b",".","c","o">>,
              <<"b","a","d">>, <<>>},
     password : {<<"A","a","1","!","a","a","a","a">>, <<"a">>, <<>>}]

EnteredForms ==
    {Entered("password", s) : s \in PasswordInputs}
    \cup {Entered("username", s) : s \in UsernameInputs}
    \cup {Entered("email", s) : s \in EmailInputs}
    \cup {Entered("signup", d) : d \in ParseInputs}
    \cup {Entered("signup_form", d) : d \in SignupInputs}
    \cup {Entered("login_form", d) : d \in LoginInputs}

InitForms ==
    /\ InitLogin
    /\ formState \in EnteredForms
    /\ InitBackend
    /\ otherTab = TabClosed

IsEntered(form) == formState.op = "entered" /\ formState.form = form

Parsed(op, result) ==
    [formState EXCEPT !.op = op, !.issues = result.issues,
                      !.output = result.output]

\* passwordSchema.safeParse(input)
ParsePassword ==
    /\ IsEntered("password")
    /\ formState' = Parsed("parse_password", PasswordSchema(formState.input))
    /\ UNCHANGED <<loginVars, backendVars, tabVars>>

\* usernameSchema.safeParse(input)
ParseUsername ==
    /\ IsEntered("username")
    /\ formState' = Parsed("parse_username", UsernameSchema(formState.input))
    /\ UNCHANGED <<loginVars, backendVars, tabVars>>

\* emailSchema.safeParse(input)
ParseEmail ==
    /\ IsEntered("email")
    /\ formState' = Parsed("parse_email", EmailSchema(formState.input))
    /\ UNCHANGED <<loginVars, backendVars, tabVars>>

\* signupSchema.safeParse(input)
ParseSignup ==
    /\ IsEntered("signup")
    /\ formState' = Parsed("parse_signup", SignupSchema(formState.input))
    /\ UNCHANGED <<loginVars, backendVars, tabVars>>

\* The Signup page's form is submitted
SubmitSignup(outcome) ==
    LET result == SignupSchema(formState.input) IN
    /\ IsEntered("signup_form")
    /\ formState' = [Parsed("submit_signup", result) EXCEPT
                        !.calls = IF SubmitHandlerRuns(result.issues)
                                  THEN SignUpCalls(outcome) ELSE <<>>]
    /\ UNCHANGED <<loginVars, backendVars, tabVars>>

\* The Login page's form is submitted
SubmitLogin ==
    LET result == LoginSchema(formState.input) IN
    /\ IsEntered("login_form")
    /\ formState' = [Parsed("submit_login", result) EXCEPT
                        !.calls = IF SubmitHandlerRuns(result.issues)
                                     /\ ~SubmitBlocked(isLocked)
                                  THEN <<"check_rate_limit">> ELSE <<>>]
    /\ UNCHANGED <<loginVars, backendVars, tabVars>>

NextForms ==
    \/ ParsePassword
    \/ ParseUsername
    \/ ParseEmail
    \/ ParseSignup
    \/ \E outcome \in SignUpOutcomes : SubmitSignup(outcome)
    \/ SubmitLogin

SpecForms == InitForms /\ [][NextForms]_vars

-----------------------------------------------------------------------------
(* The backend: sessions, routes and the profiles table with its row-level *)
(* policies (supabase/migrations/20251022163132_...sql)                    *)

Users == {"u1", "u2"}

Usernames == {"alice", "bob"}

Row(uid, name) == [user_id |-> uid, username |-> name]

Rows == {Row(uid, name) : uid \in Users, name \in Usernames}

\* a statement on profiles: who ran it, for whose rows, the rows it gave
Call(op, by, target, rows) ==
    [op |-> op, by |-> by, target |-> target, rows |-> rows,
     error |-> FALSE, event |-> NoEvent]

\* a call of useAuth: whether it answered { error }, and the event type it
\* passed to log_security_event last
AuthCall(op, by, target, rows, error, event) ==
    [op |-> op, by |-> by, target |-> target, rows |-> rows,
     error |-> error, event |-> event]

\* auth.uid() = user_id; auth.uid() is null without a session and null
\* equals nothing
OwnRow(uid, row) == uid # NoUser /\ uid = row.user_id

SelectPolicyPublic(uid, row) == TRUE

\* "Users can view own profile" FOR SELECT USING (auth.uid() = user_id)
SelectPolicy(uid, row) == OwnRow(uid, row)

\* "Users can create own profile" FOR INSERT WITH CHECK (auth.uid() = user_id)
InsertPolicy(uid, row) == OwnRow(uid, row)

\* "Users can update own profile" FOR UPDATE USING (auth.uid() = user_id);
\* with no WITH CHECK the USING expression is applied to the new row too
UpdatePolicy(uid, row) == OwnRow(uid, row)

\* user_id UUID NOT NULL UNIQUE, username TEXT NOT NULL UNIQUE
TableConstraints(rows) ==
    \A r1 \in rows, r2 \in rows :
        (r1.user_id = r2.user_id \/ r1.username = r2.username) => r1 = r2

\* select * from profiles where user_id = target, run with the session's token
SelectProfiles(target) ==
    /\ lastCall' = Call("select", session, target,
                        {r \in profiles : r.user_id = target
                                          /\ SelectPolicy(session, r)})
    /\ UNCHANGED <<session, route, profiles, authUsers>>
    /\ UNCHANGED <<loginVars, formVars, tabVars>>

\* insert into profiles values (row)
InsertProfile(row) ==
    LET ok == InsertPolicy(session, row)
              /\ TableConstraints(profiles \cup {row})
    IN  /\ profiles' = IF ok THEN profiles \cup {row} ELSE profiles
        /\ lastCall' = Call("insert", session, row.user_id,
                            IF ok THEN {row} ELSE {})
        /\ UNCHANGED <<session, route, authUsers>>
        /\ UNCHANGED <<loginVars, formVars, tabVars>>

\* update profiles set (user_id, username) = new where user_id = target
UpdateProfile(target, new) ==
    LET hit == {r \in profiles : r.user_id = target
                                 /\ UpdatePolicy(session, r)}
        after == (profiles \ hit) \cup {new}
        ok == /\ hit # {}
              /\ UpdatePolicy(session, new)
              /\ TableConstraints(after)
    IN  /\ profiles' = IF ok THEN after ELSE profiles
        /\ lastCall' = Call("update", session, target,
                            IF ok THEN hit \cup {new} ELSE {})
        /\ UNCHANGED <<session, route, authUsers>>
        /\ UNCHANGED <<loginVars, formVars, tabVars>>

Routes == {"/", "/login", "/signup", "/dashboard"}

\* ProtectedRoute sends a visitor without a user from /dashboard to /login;
\* Login and Signup send a signed-in user to /dashboard
Render(path, user) ==
    IF path = "/dashboard" /\ user = NoUser THEN "/login"
    ELSE IF path \in {"/login", "/signup"} /\ user # NoUser THEN "/dashboard"
    ELSE path

\* A page is opened by its address or through a link
Visit(path) ==
    /\ route' = Render(path, session)
    /\ UNCHANGED <<session, profiles, authUsers, lastCall>>
    /\ UNCHANGED <<loginVars, formVars, tabVars>>

\* signIn succeeded for user u; Login navigates to /dashboard
SignedIn(u) ==
    /\ session = NoUser
    /\ u \in authUsers
    /\ session' = u
    /\ route' = "/dashboard"
    /\ lastCall' = AuthCall("signIn", u, u, {}, FALSE, "login_success")
    /\ UNCHANGED <<profiles, authUsers>>
    /\ UNCHANGED <<loginVars, formVars, tabVars>>

\* signInWithPassword answered an error: signIn logs login_failed and
\* answers { error }
SignInRejected(u) ==
    /\ session = NoUser
    /\ lastCall' = AuthCall("signIn", NoUser, u, {}, TRUE, "login_failed")
    /\ UNCHANGED <<session, route, profiles, authUsers>>
    /\ UNCHANGED <<loginVars, formVars, tabVars>>

\* useAuth.signUp(email, password, username) for a new user u.  authOk:
\* supabase.auth.signUp created the user; confirmed: the project signs new
\* users in at once (otherwise the email must be confirmed first and there
\* is no session yet); audit: the awaited signup_success event.
SignUp(u, name, authOk, confirmed, audit) ==
    LET row == Row(u, name)
        uid == IF authOk /\ confirmed THEN u ELSE NoUser
        inserted == /\ authOk
                    /\ InsertPolicy(uid, row)
                    /\ TableConstraints(profiles \cup {row})
        error == ~inserted \/ audit = "throws"
    IN  /\ session = NoUser
        /\ u \notin authUsers
        /\ authUsers' = IF authOk THEN authUsers \cup {u} ELSE authUsers
        /\ session' = uid
        /\ profiles' = IF inserted THEN profiles \cup {row} ELSE profiles
        /\ route' = Render(IF error THEN "/signup" ELSE "/login", uid)
        /\ lastCall' = AuthCall("signUp", NoUser, IF authOk THEN u ELSE NoUser,
                                IF inserted THEN {row} ELSE {}, error,
                                IF error THEN "signup_failed"
                                ELSE "signup_success")
        /\ UNCHANGED <<loginVars, formVars, tabVars>>

\* supabase.auth.signOut() answers; or it answers and the awaited audit call
\* rejects; or it returns an error and leaves the session in place
SignOutOutcomes == {"ok", "audit_throws", "error"}

SignOutClearsSession(outcome) == outcome # "error"

\* Navbar: await signOut(); window.location.href = "/"
HandleSignOut(outcome) ==
    /\ session # NoUser
    /\ session' = IF SignOutClearsSession(outcome) THEN NoUser ELSE session
    /\ route' = "/"
    /\ lastCall' = AuthCall("signOut", session, session, {}, outcome # "ok",
                            IF SignOutClearsSession(outcome)
                            THEN "logout_success" ELSE NoEvent)
    /\ UNCHANGED <<profiles, authUsers>>
    /\ UNCHANGED <<loginVars, formVars, tabVars>>

NextBackend ==
    \/ \E u \in Users, name \in Usernames, authOk \in BOOLEAN,
          confirmed \in BOOLEAN, audit \in AuditOutcomes :
            SignUp(u, name, authOk, confirmed, audit)
    \/ \E u \in Users : SignedIn(u)
    \/ \E u \in Users : SignInRejected(u)
    \/ \E outcome \in SignOutOutcomes : HandleSignOut(outcome)
    \/ \E path \in Routes : Visit(path)
    \/ \E target \in Users : SelectProfiles(target)
    \/ \E row \in Rows : InsertProfile(row)
    \/ \E target \in Users, new \in Rows : UpdateProfile(target, new)

SpecBackend == Init /\ [][NextBackend]_vars

-----------------------------------------------------------------------------
(* Properties *)

ServerVerdict ==
    CheckRateLimit(srvCount, srvLast, now, MAX_LOGIN_ATTEMPTS, WINDOW_MINUTES)

KeysAbsent(ls) == ~HasItem(ls, KeyLockoutEnd) /\ ~HasItem(ls, KeyAttempts)

\* C1: right after the fifth failed login inside the window has been
\* processed at time t, the guard is locked with lockoutEndTime = t + 15 min,
\* and that expiry is stored under loginLockoutEnd.
C1_FifthFailureLocks ==
    (/\ lastEvent.ev = "login_failed"
     /\ lastEvent.live
     /\ lastEvent.arg = MAX_LOGIN_ATTEMPTS
     /\ srvCount = MAX_LOGIN_ATTEMPTS)
    => /\ isLocked
       /\ lockoutEndTime = now + LOCKOUT_DURATION
       /\ HasItem(localStorage, KeyLockoutEnd)
       /\ localStorage[KeyLockoutEnd] = NumberToString(now + LOCKOUT_DURATION)

\* C2: an onSubmit that runs while isLocked is true starts no remote call
\* (no invocation is left waiting on one, the server sees nothing) and
\* leaves loginAttempts, lockoutEndTime and both persisted keys as they were.
C2_LockedSubmitIsInert ==
    [][(mounted /\ isLocked /\ lastEvent'.ev \in {"submit_locked", "submit"})
       => /\ flows' = flows
          /\ srvCount' = srvCount
          /\ srvLast' = srvLast
          /\ loginAttempts' = loginAttempts
          /\ lockoutEndTime' = lockoutEndTime
          /\ isLocked' = isLocked
          /\ localStorage' = localStorage]_vars

C2_Witness ==
    /\ lastEvent.ev = "submit_locked"
    /\ isLocked
    /\ HasItem(localStorage, KeyLockoutEnd)

\* C3: when check_rate_limit answers "not allowed" to a submission of an
\* open guard, the guard becomes locked with the server's lockout_until as
\* lockoutEndTime, that expiry is stored under loginLockoutEnd, and the
\* submission ends there: it never reaches signInWithPassword.
C3_ServerLockoutOverrides ==
    [][(lastEvent'.ev = "check_blocked" /\ lastEvent'.live /\ ~isLocked)
       => /\ ~ServerVerdict.allowed
          /\ isLocked'
          /\ lockoutEndTime' = ServerVerdict.lockout_until
          /\ HasItem(localStorage', KeyLockoutEnd)
          /\ ParseInt(localStorage'[KeyLockoutEnd]) = ServerVerdict.lockout_until
          /\ \E f \in BagToSet(flows) :
                f.pc = "check" /\ flows' = flows (-) SetToBag({f})]_vars

C3_Witness ==
    /\ lastEvent.ev = "check_blocked"
    /\ lastEvent.live
    /\ isLocked
    /\ lockoutEndTime = lastEvent.arg
    /\ lockoutEndTime > now

C5_TimerExpiryOpens ==
    [][(/\ lastEvent'.ev = "tick"
        /\ isLocked
        /\ lockoutEndTime # Null
        /\ Ge(now, lockoutEndTime))
       => /\ ~isLocked'
          /\ loginAttempts' = 0
          /\ lockoutEndTime' = Null
          /\ KeysAbsent(localStorage')]_vars

C5_Witness ==
    /\ lastEvent.ev = "tick"
    /\ lastEvent.arg = 1
    /\ ~isLocked
    /\ mounted

\* C6: a mount rebuilds the guard from the persisted keys: a loginLockoutEnd
\* in the past (now >= value) gives an open guard with no attempts and both
\* keys removed; one in the future gives a locked guard with that expiry;
\* unless the lockout was found expired, a persisted loginAttempts becomes
\* the attempt count.
C6_MountRehydrates ==
    [][lastEvent'.ev = "mount"
       => /\ HasItem(localStorage, KeyLockoutEnd)
             => LET v == ParseInt(localStorage[KeyLockoutEnd]) IN
                /\ Ge(now, v) => /\ ~isLocked'
                                 /\ loginAttempts' = 0
                                 /\ lockoutEndTime' = Null
                                 /\ KeysAbsent(localStorage')
                /\ Lt(now, v) => /\ isLocked'
                                 /\ lockoutEndTime' = v
                                 /\ localStorage' = localStorage
          /\ (/\ HasItem(localStorage, KeyAttempts)
              /\ HasItem(localStorage, KeyLockoutEnd)
                   => Lt(now, ParseInt(localStorage[KeyLockoutEnd])))
             => loginAttempts' = ParseInt(localStorage[KeyAttempts])]_vars

C6_Witness ==
    /\ lastEvent.ev = "mount"
    /\ lastEvent.arg # Null
    /\ Ge(now, lastEvent.arg)
    /\ mounted
    /\ ~isLocked
    /\ KeysAbsent(localStorage)

\* C7: once the server counts five failed attempts of the email inside the
\* window, no submission reaches signInWithPassword.
C7_SixthSubmissionNoAuthCall ==
    lastEvent.ev = "auth_call"
    => SrvEffectiveCount(srvCount, srvLast, now, WINDOW_MINUTES)
         < MAX_LOGIN_ATTEMPTS

\* C8: whenever the lockout message is produced for a locked guard, by
\* onSubmit or by the banner, its remaining-minutes value is in 1..15.
C8_RemainingMinutesInRange ==
    /\ (mounted /\ isLocked /\ Truthy(lockoutEndTime))
       => RemainingTime(lockoutEndTime, now) \in 1..15
    /\ lastEvent.ev = "submit_locked" => lastEvent.arg \in 1..15

\* C9: in every guard state, a lockout expiry is present exactly when the
\* attempt count has reached the threshold.
C9_LockoutIffThreshold ==
    mounted => ((loginAttempts >= MAX_LOGIN_ATTEMPTS) <=> (lockoutEndTime # Null))

C11_AuditFailureHarmless ==
    lastEvent.ev \in {"signin_ok", "signin_error", "signin_throws"}
    => lastEvent.ev = (IF lastEvent.arg = 1 THEN "signin_ok" ELSE "signin_error")

\* C20: onSubmit rejects a submission as locked only at times before
\* lockoutEndTime; from lockoutEndTime on the client guard blocks nothing.
C20_LockedRejectOnlyWhileActive ==
    lastEvent.ev = "submit_locked" => Lt(now, lockoutEndTime)

-----------------------------------------------------------------------------
(* Properties of the validation schemas and the forms *)

IsSubmit == formState.op \in {"submit_signup", "submit_login"}

\* C12: a form submission whose input fails its schema makes no remote call,
\* and a signup whose username is shorter than 3 characters shows "Username
\* must be at least 3 characters" for the username.
C12_InvalidSubmitStaysLocal ==
    /\ IsSubmit /\ formState.issues # <<>> => formState.calls = <<>>
    /\ formState.op = "submit_signup" /\ Len(formState.input.username) < 3
       => /\ FieldError(formState.issues, "username")
               = "Username must be at least 3 characters"
          /\ formState.calls = <<>>

C12_Witness ==
    /\ formState.op = "submit_signup"
    /\ formState.input.username = <<"a", "b">>
    /\ formState.input.password = formState.input.confirmPassword
    /\ PasswordSchema(formState.input.password).issues = <<>>
    /\ formState.calls = <<>>

PasswordConditions(s) ==
    <<Len(s) >= 8, \E i \in 1..Len(s) : IsUpper(s[i]),
      \E i \in 1..Len(s) : IsLower(s[i]), \E i \in 1..Len(s) : IsDigit(s[i]),
      \E i \in 1..Len(s) : ~IsUpper(s[i]) /\ ~IsLower(s[i]) /\ ~IsDigit(s[i])>>

PasswordMessages ==
    <<"Password must be at least 8 characters",
      "Password must contain at least one uppercase letter",
      "Password must contain at least one lowercase letter",
      "Password must contain at least one number",
      "Password must contain at least one special character">>

\* C13: passwordSchema accepts a password exactly when it has 8 or more
\* characters, an uppercase letter, a lowercase letter, a digit and a
\* non-alphanumeric character; a password missing exactly one of the five
\* fails with exactly that condition's message.
C13_PasswordStrength ==
    formState.op = "parse_password" =>
        LET met == PasswordConditions(formState.input) IN
        /\ (formState.issues = <<>>) <=> (\A k \in 1..5 : met[k])
        /\ \A k \in 1..5 :
             (~met[k] /\ \A j \in (1..5) \ {k} : met[j])
             => formState.issues = <<PasswordMessages[k]>>

C13_Witness ==
    /\ formState.op = "parse_password"
    /\ Len(formState.input) >= 8
    /\ formState.issues
         = <<"Password must contain at least one special character">>

\* C14: usernameSchema rejects every username holding a character outside
\* [A-Za-z0-9_] and every username whose length is outside 3..30.
C14_UsernameRejected ==
    formState.op = "parse_username" =>
        LET s == formState.input IN
        (\/ \E i \in 1..Len(s) : ~(IsAlnum(s[i]) \/ s[i] = "_")
         \/ Len(s) < 3
         \/ Len(s) > 30)
        => formState.issues # <<>>

C14_Witness ==
    /\ formState.op = "parse_username"
    /\ IsWord(Trim(formState.input))
    /\ Len(Trim(formState.input)) >= 3
    /\ Trim(formState.input) # formState.input
    /\ formState.issues # <<>>

\* C15: an email that is valid once trimmed passes emailSchema and comes out
\* trimmed and in lower case.
C15_EmailNormalisedBeforeCheck ==
    formState.op = "parse_email" =>
        LET s == formState.input IN
        IsEmail(Trim(s)) /\ Len(Trim(s)) <= 255
        => /\ formState.issues = <<>>
           /\ formState.output = ToLowerCase(Trim(s))

MismatchReported ==
    \E i \in 1..Len(formState.issues) :
        formState.issues[i].message = "Passwords do not match"

OtherFieldsValid ==
    \A i \in 1..Len(formState.issues) :
        formState.issues[i].path \notin {"username", "email", "password"}

\* C16 as stated: "Passwords do not match" is reported only when username,
\* email and password have each passed their own validation.
C16_EqualityOnlyAfterFields ==
    formState.op = "parse_signup" /\ MismatchReported => OtherFieldsValid

\* C16 amended: the equality check is evaluated whenever all four fields
\* are strings, whether or not username, email and password passed their
\* own validation; when it fails "Passwords do not match" is reported once,
\* against confirmPassword and no other field.
C16_EqualityWheneverStrings ==
    formState.op = "parse_signup" =>
        LET d == formState.input
            at == {i \in 1..Len(formState.issues) :
                      formState.issues[i].message = "Passwords do not match"}
            evaluated == /\ d.username # Undefined /\ d.email # Undefined
                         /\ d.password # Undefined
                         /\ d.confirmPassword # Undefined
        IN  /\ (at # {}) <=> (evaluated /\ d.password # d.confirmPassword)
            /\ Cardinality(at) <= 1
            /\ \A i \in at : formState.issues[i].path = "confirmPassword"

C16_Witness ==
    /\ formState.op = "parse_signup"
    /\ MismatchReported
    /\ ~OtherFieldsValid

\* C17: at most one onSubmit invocation of the Login page is in flight at
\* any time.
C17_SingleFlight == BagCardinality(flows) <= 1

\* C18: under the profiles policies a statement run by user u returns,
\* inserts or updates only rows whose user_id is u, and a query for the rows
\* of another user returns no rows.
C18_RowsOwnedByCaller ==
    lastCall.op \in {"select", "insert", "update"} =>
        /\ \A r \in lastCall.rows : r.user_id = lastCall.by
        /\ lastCall.target # lastCall.by => lastCall.rows = {}

C18_Witness ==
    /\ lastCall.op = "select"
    /\ lastCall.by \in Users
    /\ lastCall.target \in Users \ {lastCall.by}
    /\ \E r \in profiles : r.user_id = lastCall.target
    /\ lastCall.rows = {}

\* C19: after handleSignOut the session is cleared and the dashboard is not
\* shown, whatever the signOut call answered.
C19_LogoutClearsSession ==
    lastCall.op = "signOut" => session = NoUser /\ route # "/dashboard"

-----------------------------------------------------------------------------
(* Properties of the guard's transitions *)

StoredAttempts(ls) ==
    IF HasItem(ls, KeyAttempts) THEN ParseInt(ls[KeyAttempts]) ELSE 0

StoredLockoutEnd(ls) ==
    IF HasItem(ls, KeyLockoutEnd) THEN ParseInt(ls[KeyLockoutEnd]) ELSE Null

IsGuardTransition ==
    /\ lastEvent.live
    /\ \/ lastEvent.ev \in {"login_failed", "check_blocked", "login_success",
                            "mount"}
       \/ lastEvent.ev = "tick" /\ lastEvent.arg = 1

\* C21: right after a failed login, a server-reported lockout, a successful
\* login, a timer expiry or a rehydration, the loginAttempts key equals the
\* in-memory attempt count (absent meaning 0) and the loginLockoutEnd key
\* equals the in-memory lockoutEndTime (absent meaning none).
C21_PersistedAgrees ==
    IsGuardTransition
    => /\ StoredAttempts(localStorage) = loginAttempts
       /\ StoredLockoutEnd(localStorage) = lockoutEndTime

\* C22: a failed login of an open guard with fewer than 5 attempts adds
\* exactly 1 to the attempt count.
C22_FailureAddsOne ==
    [][(/\ lastEvent'.ev = "login_failed"
        /\ lastEvent'.live
        /\ ~isLocked
        /\ loginAttempts < MAX_LOGIN_ATTEMPTS)
       => loginAttempts' = loginAttempts + 1]_vars

\* C23: the countdown interval exists exactly while the Login component is
\* mounted and locked with a lockoutEndTime, closed over that end time; no
\* interval callback runs for an unmounted component.
C23_TimerScoped ==
    /\ (timer # NoTimer)
       <=> (mounted /\ isLocked /\ lockoutEndTime \notin {Null, NaN, 0})
    /\ timer # NoTimer => timer = lockoutEndTime
    /\ lastEvent.ev = "tick" => mounted

C23_Witness ==
    /\ lastEvent.ev = "unmount"
    /\ timer = NoTimer
    /\ HasItem(localStorage, KeyLockoutEnd)
    /\ Lt(now, StoredLockoutEnd(localStorage))

\* a remote call of the submission threw in this step: an rpc of onSubmit,
\* the login_failed audit call (signIn rejects), or the login_success audit
\* call after a successful authentication (signIn answers { error })
RemoteCallThrew(e) ==
    \/ e.ev \in {"caught", "signin_throws"}
    \/ e.ev = "signin_error" /\ e.arg = 1

\* C24: when a remote call of a login submission throws, the submission
\* ends in onSubmit's catch: no further remote call of it is awaited, the
\* attempt count, the lock, the expiry and both keys stay as they were, and
\* isLoading is false afterwards.
C24_ThrowLeavesGuard ==
    [][RemoteCallThrew(lastEvent')
       => /\ \E f \in BagToSet(flows) : flows' = flows (-) SetToBag({f})
          /\ loginAttempts' = loginAttempts
          /\ isLocked' = isLocked
          /\ lockoutEndTime' = lockoutEndTime
          /\ localStorage' = localStorage
          /\ lastEvent'.live => ~isLoading']_vars

\* C25: every signInWithPassword call of a submission is followed by one
\* record_login_attempt whose success flag is true exactly when that
\* authentication succeeded.
C25_RecordFollowsSignIn ==
    [][lastEvent'.ev \in {"signin_ok", "signin_error", "signin_throws"}
       => \E f \in BagToSet(flows), g \in BagToSet(flows') :
             /\ f.pc = "signin"
             /\ g.pc = "record"
             /\ g.err = (lastEvent'.arg # 1)
             /\ flows' = (flows (-) SetToBag({f})) (+) SetToBag({g})]_vars

\* C26: signInWithPassword is called only for a submission whose
\* check_rate_limit call returned a verdict, and that verdict allowed it.
C26_AuthOnlyWhenAllowed ==
    [][lastEvent'.ev = "auth_call"
       => /\ lastEvent'.arg = 1
          /\ ServerVerdict.allowed]_vars

\* C27: a mounted, locked guard whose lockout is no longer running (the
\* time is not before its expiry) is eventually open again, or the page is
\* left.
C27_LockedEventuallyOpens ==
    (mounted /\ isLocked /\ ~Lt(now, lockoutEndTime))
    ~> (~isLocked \/ ~mounted)

-----------------------------------------------------------------------------
(* Properties of signUp and the audit events *)

\* C28: when signUp answers an error no auth user was created by the call;
\* when it answers no error the created user has a profile row.
C28_SignUpAllOrNothing ==
    lastCall.op = "signUp" =>
        /\ lastCall.error => lastCall.target \notin authUsers
        /\ ~lastCall.error
           => \E r \in lastCall.rows : r.user_id = lastCall.target
                                       /\ r \in profiles

\* valid_event_type CHECK (event_type IN (...)) of public.security_logs
ValidEventTypes ==
    {"signup", "login", "logout", "failed_login", "password_change"}

\* C29: every event type passed to log_security_event is one the
\* security_logs table accepts.
C29_EventTypesStorable ==
    lastCall.event # NoEvent => lastCall.event \in ValidEventTypes

-----------------------------------------------------------------------------
(* Property of two tabs *)

LockPersisted(tabMounted, locked, endTime) ==
    (tabMounted /\ locked)
    => /\ HasItem(localStorage, KeyLockoutEnd)
       /\ ParseInt(localStorage[KeyLockoutEnd]) = endTime

\* C30: whenever the guard of a tab is locked, the loginLockoutEnd key is in
\* the shared storage and holds that tab's expiry.
C30_LockedTabsPersisted ==
    /\ LockPersisted(mounted, isLocked, lockoutEndTime)
    /\ LockPersisted(otherTab.mounted, otherTab.isLocked,
                     otherTab.lockoutEndTime)

=============================================================================
